---- MODULE Spec2Model ----
(***************************************************************************)
(* Model of cbits/hs_uv_dns.c: the two resolver adapters hs_getaddrinfo    *)
(* and hs_getnameinfo.  Each adapter is one call of the OS resolver        *)
(* followed by one call of uv__getaddrinfo_translate_error on the code the *)
(* resolver returned.  Callers are threads; every thread owns its          *)
(* arguments, its result slot and its two output buffers.                  *)
(* The (HsInt) cast of the translated int is a sign-preserving widening,   *)
(* so statuses are kept symbolic and the cast does not appear.             *)
(* hints, addrlen and flags are handed to the resolver unchanged and only  *)
(* select among its outcomes, which the model draws nondeterministically.  *)
(* A call is two steps, the resolver call and the return, so that calls of *)
(* different threads interleave where the code allows it.                  *)
(***************************************************************************)
EXTENDS Integers, Sequences, FiniteSets, TLC

\* ------------------------------------------------------------------ bounds
MaxChains == 2
MaxAddrs == 2
MaxCap == 2
MaxName == 2

Threads == {"t1", "t2"}

\* ------------------------------------------------------------ value spaces
NULL == "NULL"
None == "none"
Unset == "UNSET"
ChainIds == 1..MaxChains
\* Values of a struct addrinfo* : the null pointer, a pointer to a chain, an
\* indeterminate non-null value (what an uninitialised slot may hold), and
\* the mark of a slot that does not exist at the moment.
NullPtr == <<"NULL">>
Garbage == <<"GARBAGE">>
NoPtr == <<"none">>
Ptr(c) == <<"chain", c>>
ChainPtrs == {Ptr(c) : c \in ChainIds}
Hosts == {NULL, "host"}
Services == {NULL, "svc"}
Addrs == {"sockaddr"}
\* Capacities, name lengths and chain lengths: the smallest and the largest
Caps == {1, MaxCap}
NameLens == {1, MaxName}
AddrCounts == {1, MaxAddrs}
\* A buffer of capacity up to MaxCap and the byte after it
BufCells == 1..(MaxCap + 1)
\* Untouched byte, text byte, terminating NUL byte
Untouched == "?"
Char == "c"
Nul == "NUL"

\* OS-native resolver return codes (the EAI family), 0 written OK, and one
\* code that has no dedicated mapping.
OK == "OK"
GaiFailures == {"EAI_NONAME", "EAI_AGAIN", "EAI_UNMAPPED"}
GniFailures == {"EAI_NONAME", "EAI_FAMILY", "EAI_UNMAPPED"}
NativeCodes == {OK, "EAI_OVERFLOW"} \cup GaiFailures \cup GniFailures

\* Normalized statuses
Success == "success"
SystemFailure == "generic-system-failure"
Failures == {"name-not-found", "service-not-found", "family-not-supported",
             "temporary-failure", "buffer-too-small", "out-of-memory",
             SystemFailure}
Status == {Success} \cup Failures

VARIABLES
  pc,        \* per thread: idle, gai_entry, gai_os_done, gni_entry, gni_os_done, returned
  op,        \* per thread: the adapter being called (none, getaddrinfo, getnameinfo)
  node,      \* hs_getaddrinfo argument node
  service,   \* hs_getaddrinfo argument service
  resOut,    \* the caller's struct addrinfo* slot that res points to
  err,       \* the adapters' local `int err`, one per storage slot
  ret,       \* the HsInt the call returned
  chains,    \* heap: state of every addrinfo chain (unalloc, alloc, freed)
  held,      \* per thread: chains received with status success, not yet released
  relCount,  \* per chain: number of times it was released
  addr,      \* hs_getnameinfo argument addr (the sockaddr's content)
  hostlen,   \* hs_getnameinfo argument hostlen
  servlen,   \* hs_getnameinfo argument servlen
  hostBuf,   \* memory at host: hostlen bytes of the caller's, then what lies beyond
  servBuf,   \* memory at serv
  resBefore, \* history: content of the result slot when the call was made
  osCalls,   \* history: number of OS resolver invocations of the current call
  osFirst,   \* history: code the OS resolver reported first in the current call
  osChain,   \* history: chain the OS resolver allocated for the current call
  osLen,     \* history: number of addresses in that chain
  hostName,  \* history: length of the host name the OS resolved (0: none)
  servName   \* history: length of the service name the OS resolved (0: none)

callVars == <<pc, op, ret>>
gaiVars == <<node, service, resOut, resBefore, osChain, osLen>>
heapVars == <<chains, held, relCount>>
gniVars == <<addr, hostlen, servlen, hostBuf, servBuf, hostName, servName>>
vars == <<pc, op, node, service, resOut, err, ret, chains, held, relCount,
          addr, hostlen, servlen, hostBuf, servBuf, resBefore, osCalls,
          osFirst, osChain, osLen, hostName, servName>>

\* ------------------------------------------------------------ translation
\* Mutant: a code without a dedicated mapping gets no status at all.
Translate_NoFallback(e) ==
  CASE e = OK -> Success
    [] e = "EAI_NONAME" -> "name-not-found"
    [] e = "EAI_SERVICE" -> "service-not-found"
    [] e = "EAI_FAMILY" -> "family-not-supported"
    [] e = "EAI_AGAIN" -> "temporary-failure"
    [] e = "EAI_OVERFLOW" -> "buffer-too-small"
    [] e = "EAI_MEMORY" -> "out-of-memory"
    [] OTHER -> None

\* uv__getaddrinfo_translate_error: total, one status per native code, every
\* code without a dedicated mapping falls into the generic system failure.
Translate(e) ==
  CASE e = OK -> Success
    [] e = "EAI_NONAME" -> "name-not-found"
    [] e = "EAI_SERVICE" -> "service-not-found"
    [] e = "EAI_FAMILY" -> "family-not-supported"
    [] e = "EAI_AGAIN" -> "temporary-failure"
    [] e = "EAI_OVERFLOW" -> "buffer-too-small"
    [] e = "EAI_MEMORY" -> "out-of-memory"
    [] OTHER -> SystemFailure

\* Codes with a dedicated status
Mapped == {OK, "EAI_NONAME", "EAI_SERVICE", "EAI_FAMILY", "EAI_AGAIN",
           "EAI_OVERFLOW", "EAI_MEMORY"}

\* ------------------------------------------------------------ local storage
\* Mutant: `static int err;`, one object shared by every invocation.
ErrSlotStatic(t) == "static"

\* `int err;` has automatic storage: every invocation has its own.
ErrSlot(t) == t

ErrSlots == {ErrSlot(t) : t \in Threads}

\* ------------------------------------------------------------ OS resolver
FreeChains == {c \in ChainIds : chains[c] = "unalloc"}

\* The chain the allocator hands out next
NewChain == CHOOSE c \in FreeChains : \A d \in FreeChains : c <= d

\* getaddrinfo(node, service, hints, res): with both names absent it fails
\* with EAI_NONAME; on success it allocates a chain of at least one address
\* and stores it through res; on failure it allocates nothing that outlives
\* the call and either leaves the slot behind res alone or clears it.
GetaddrinfoOutcomes(n, s) ==
  LET fails(E) == {[err |-> e, len |-> 0, clear |-> b] : e \in E, b \in BOOLEAN}
  IN IF n = NULL /\ s = NULL
       THEN fails({"EAI_NONAME"})
       ELSE fails(GaiFailures)
            \cup (IF FreeChains = {} THEN {}
                  ELSE {[err |-> OK, len |-> k, clear |-> FALSE] : k \in AddrCounts})

Min(a, b) == IF a < b THEN a ELSE b

\* A name of n bytes as the resolver writes it: n text bytes and a NUL.
Text(n) == [i \in 1..(n + 1) |-> IF i <= n THEN Char ELSE Nul]

\* The first bytes of w that fit into a buffer of capacity cap
Prefix(w, cap) == [i \in 1..Min(Len(w), cap) |-> w[i]]

\* Memory buf after the bytes w were stored from its first byte on
Write(buf, w) == [i \in BufCells |-> IF i <= Len(w) THEN w[i] ELSE buf[i]]

\* getnameinfo(addr, addrlen, host, hostlen, serv, servlen, flags): it fails
\* before resolving anything, or resolves a host name of hn bytes and a
\* service name of sn bytes.  Both are stored NUL-terminated when each fits
\* the capacity it was given; otherwise the call fails with EAI_OVERFLOW
\* having stored what fits.  It allocates nothing.
GetnameinfoOutcomes(hcap, scap) ==
  {[err |-> e, host |-> <<>>, serv |-> <<>>, hn |-> 0, sn |-> 0] : e \in GniFailures}
  \cup {IF hn < hcap /\ sn < scap
          THEN [err |-> OK, host |-> Text(hn), serv |-> Text(sn),
                hn |-> hn, sn |-> sn]
          ELSE [err |-> "EAI_OVERFLOW",
                host |-> Prefix(Text(hn), hcap),
                serv |-> Prefix(Text(sn), scap),
                hn |-> hn, sn |-> sn]
        : hn \in NameLens, sn \in NameLens}

\* ------------------------------------------------------------ callers
Init ==
  /\ pc = [t \in Threads |-> "idle"]
  /\ op = [t \in Threads |-> None]
  /\ node = [t \in Threads |-> NULL]
  /\ service = [t \in Threads |-> NULL]
  /\ resOut = [t \in Threads |-> NoPtr]
  /\ err = [s \in ErrSlots |-> Unset]
  /\ ret = [t \in Threads |-> None]
  /\ chains = [c \in ChainIds |-> "unalloc"]
  /\ held = [t \in Threads |-> {}]
  /\ relCount = [c \in ChainIds |-> 0]
  /\ addr = [t \in Threads |-> None]
  /\ hostlen = [t \in Threads |-> 0]
  /\ servlen = [t \in Threads |-> 0]
  /\ hostBuf = [t \in Threads |-> [i \in BufCells |-> Untouched]]
  /\ servBuf = [t \in Threads |-> [i \in BufCells |-> Untouched]]
  /\ resBefore = [t \in Threads |-> NoPtr]
  /\ osCalls = [t \in Threads |-> 0]
  /\ osFirst = [t \in Threads |-> None]
  /\ osChain = [t \in Threads |-> NoPtr]
  /\ osLen = [t \in Threads |-> 0]
  /\ hostName = [t \in Threads |-> 0]
  /\ servName = [t \in Threads |-> 0]

\* A caller invokes hs_getaddrinfo(node, service, hints, res).  The slot res
\* points to is the caller's, fresh for the call: zeroed or uninitialised.
CallGetaddrinfo(t) ==
  /\ pc[t] = "idle"
  /\ \E n \in Hosts, s \in Services, prior \in {NullPtr, Garbage} :
       /\ node' = [node EXCEPT ![t] = n]
       /\ service' = [service EXCEPT ![t] = s]
       /\ resOut' = [resOut EXCEPT ![t] = prior]
       /\ resBefore' = [resBefore EXCEPT ![t] = prior]
  /\ pc' = [pc EXCEPT ![t] = "gai_entry"]
  /\ op' = [op EXCEPT ![t] = "getaddrinfo"]
  /\ UNCHANGED <<err, ret, heapVars, gniVars, osCalls, osFirst, osChain, osLen>>

\* The names hs_getaddrinfo hands to getaddrinfo: its own, unchanged.
GaiNodeArg(t) == node[t]

GaiServiceArg(t) == service[t]

\* err = getaddrinfo(node, service, hints, res);
HsGetaddrinfoOS(t) ==
  /\ pc[t] = "gai_entry"
  /\ \E o \in GetaddrinfoOutcomes(GaiNodeArg(t), GaiServiceArg(t)) :
       /\ err' = [err EXCEPT ![ErrSlot(t)] = o.err]
       /\ osFirst' = [osFirst EXCEPT ![t] = IF osCalls[t] = 0 THEN o.err ELSE @]
       /\ osLen' = [osLen EXCEPT ![t] = o.len]
       /\ IF o.err = OK
            THEN /\ chains' = [chains EXCEPT ![NewChain] = "alloc"]
                 /\ resOut' = [resOut EXCEPT ![t] = Ptr(NewChain)]
                 /\ osChain' = [osChain EXCEPT ![t] = Ptr(NewChain)]
            ELSE /\ resOut' = [resOut EXCEPT ![t] = IF o.clear THEN NullPtr ELSE @]
                 /\ UNCHANGED <<chains, osChain>>
  /\ osCalls' = [osCalls EXCEPT ![t] = @ + 1]
  /\ pc' = [pc EXCEPT ![t] = "gai_os_done"]
  /\ UNCHANGED <<op, node, service, ret, held, relCount, gniVars, resBefore>>

\* What the caller holds once the call has returned status st: on success,
\* the chain found in its result slot.
HeldAfter(t, st) ==
  IF st = Success /\ resOut[t] \in ChainPtrs THEN held[t] \cup {resOut[t][2]} ELSE held[t]

\* Mutant: the translation is skipped, the native code is returned as it is.
HsGetaddrinfoReturn_Raw(t) ==
  /\ pc[t] = "gai_os_done"
  /\ ret' = [ret EXCEPT ![t] = err[ErrSlot(t)]]
  /\ held' = [held EXCEPT ![t] = HeldAfter(t, ret'[t])]
  /\ pc' = [pc EXCEPT ![t] = "returned"]
  /\ UNCHANGED <<op, node, service, resOut, err, chains, relCount,
                 gniVars, resBefore, osCalls, osFirst, osChain, osLen>>

\* Mutant: `return 0;`
HsGetaddrinfoReturn_Zero(t) ==
  /\ pc[t] = "gai_os_done"
  /\ ret' = [ret EXCEPT ![t] = Translate(OK)]
  /\ held' = [held EXCEPT ![t] = HeldAfter(t, ret'[t])]
  /\ pc' = [pc EXCEPT ![t] = "returned"]
  /\ UNCHANGED <<op, node, service, resOut, err, chains, relCount,
                 gniVars, resBefore, osCalls, osFirst, osChain, osLen>>

\* Mutant: a temporary failure is retried instead of returned.
HsGetaddrinfoReturn_Retry(t) ==
  /\ pc[t] = "gai_os_done"
  /\ IF err[ErrSlot(t)] = "EAI_AGAIN"
       THEN /\ pc' = [pc EXCEPT ![t] = "gai_entry"]
            /\ UNCHANGED <<ret, held>>
       ELSE /\ ret' = [ret EXCEPT ![t] = Translate(err[ErrSlot(t)])]
            /\ held' = [held EXCEPT ![t] = HeldAfter(t, ret'[t])]
            /\ pc' = [pc EXCEPT ![t] = "returned"]
  /\ UNCHANGED <<op, node, service, resOut, err, chains, relCount,
                 gniVars, resBefore, osCalls, osFirst, osChain, osLen>>

\* Mutant: the adapter releases the chain itself before it returns.
HsGetaddrinfoReturn_Frees(t) ==
  /\ pc[t] = "gai_os_done"
  /\ ret' = [ret EXCEPT ![t] = Translate(err[ErrSlot(t)])]
  /\ held' = [held EXCEPT ![t] = HeldAfter(t, ret'[t])]
  /\ IF resOut[t] \in ChainPtrs
       THEN /\ chains' = [chains EXCEPT ![resOut[t][2]] = "freed"]
            /\ relCount' = [relCount EXCEPT ![resOut[t][2]] = @ + 1]
       ELSE UNCHANGED <<chains, relCount>>
  /\ pc' = [pc EXCEPT ![t] = "returned"]
  /\ UNCHANGED <<op, node, service, resOut, err,
                 gniVars, resBefore, osCalls, osFirst, osChain, osLen>>

\* Mutant: the status also depends on the heap at the time of the call.
HsGetaddrinfoReturn_HeapDependent(t) ==
  /\ pc[t] = "gai_os_done"
  /\ ret' = [ret EXCEPT ![t] = IF FreeChains = {} /\ err[ErrSlot(t)] # OK
                                 THEN "out-of-memory"
                                 ELSE Translate(err[ErrSlot(t)])]
  /\ held' = [held EXCEPT ![t] = HeldAfter(t, ret'[t])]
  /\ pc' = [pc EXCEPT ![t] = "returned"]
  /\ UNCHANGED <<op, node, service, resOut, err, chains, relCount,
                 gniVars, resBefore, osCalls, osFirst, osChain, osLen>>

\* return (HsInt)uv__getaddrinfo_translate_error(err);
HsGetaddrinfoReturn(t) ==
  /\ pc[t] = "gai_os_done"
  /\ ret' = [ret EXCEPT ![t] = Translate(err[ErrSlot(t)])]
  /\ held' = [held EXCEPT ![t] = HeldAfter(t, ret'[t])]
  /\ pc' = [pc EXCEPT ![t] = "returned"]
  /\ UNCHANGED <<op, node, service, resOut, err, chains, relCount,
                 gniVars, resBefore, osCalls, osFirst, osChain, osLen>>

\* A caller invokes hs_getnameinfo(addr, addrlen, host, hostlen, serv,
\* servlen, flags) with two buffers of its own, of hostlen and servlen bytes.
CallGetnameinfo(t) ==
  /\ pc[t] = "idle"
  /\ \E a \in Addrs, hl \in Caps, sl \in Caps :
       /\ addr' = [addr EXCEPT ![t] = a]
       /\ hostlen' = [hostlen EXCEPT ![t] = hl]
       /\ servlen' = [servlen EXCEPT ![t] = sl]
  /\ pc' = [pc EXCEPT ![t] = "gni_entry"]
  /\ op' = [op EXCEPT ![t] = "getnameinfo"]
  /\ UNCHANGED <<err, ret, gaiVars, heapVars, hostBuf, servBuf,
                 osCalls, osFirst, hostName, servName>>

\* Mutant: the host capacity is passed one too large.
GniHostlenArg_OffByOne(t) == hostlen[t] + 1

\* The capacities hs_getnameinfo hands to getnameinfo: its own, unchanged.
GniHostlenArg(t) == hostlen[t]

GniServlenArg(t) == servlen[t]

\* err = getnameinfo(addr, addrlen, host, hostlen, serv, servlen, flags);
HsGetnameinfoOS(t) ==
  /\ pc[t] = "gni_entry"
  /\ \E o \in GetnameinfoOutcomes(GniHostlenArg(t), GniServlenArg(t)) :
       /\ err' = [err EXCEPT ![ErrSlot(t)] = o.err]
       /\ osFirst' = [osFirst EXCEPT ![t] = IF osCalls[t] = 0 THEN o.err ELSE @]
       /\ hostBuf' = [hostBuf EXCEPT ![t] = Write(@, o.host)]
       /\ servBuf' = [servBuf EXCEPT ![t] = Write(@, o.serv)]
       /\ hostName' = [hostName EXCEPT ![t] = o.hn]
       /\ servName' = [servName EXCEPT ![t] = o.sn]
  /\ osCalls' = [osCalls EXCEPT ![t] = @ + 1]
  /\ pc' = [pc EXCEPT ![t] = "gni_os_done"]
  /\ UNCHANGED <<op, ret, gaiVars, heapVars, addr, hostlen, servlen>>

\* Mutant: the sockaddr is wiped once it has been used.
HsGetnameinfoReturn_WipesAddr(t) ==
  /\ pc[t] = "gni_os_done"
  /\ ret' = [ret EXCEPT ![t] = Translate(err[ErrSlot(t)])]
  /\ addr' = [addr EXCEPT ![t] = None]
  /\ pc' = [pc EXCEPT ![t] = "returned"]
  /\ UNCHANGED <<op, err, gaiVars, heapVars, hostlen, servlen, hostBuf, servBuf,
                 hostName, servName, osCalls, osFirst>>

\* return (HsInt)uv__getaddrinfo_translate_error(err);
HsGetnameinfoReturn(t) ==
  /\ pc[t] = "gni_os_done"
  /\ ret' = [ret EXCEPT ![t] = Translate(err[ErrSlot(t)])]
  /\ pc' = [pc EXCEPT ![t] = "returned"]
  /\ UNCHANGED <<op, err, gaiVars, heapVars, gniVars, osCalls, osFirst>>

\* The caller has read the status and goes on: the call's arguments, locals,
\* result slot and buffers go out of scope; the chains it holds stay.
Finish(t) ==
  /\ pc[t] = "returned"
  /\ pc' = [pc EXCEPT ![t] = "idle"]
  /\ op' = [op EXCEPT ![t] = None]
  /\ ret' = [ret EXCEPT ![t] = None]
  /\ err' = [err EXCEPT ![ErrSlot(t)] = Unset]
  /\ node' = [node EXCEPT ![t] = NULL]
  /\ service' = [service EXCEPT ![t] = NULL]
  /\ resOut' = [resOut EXCEPT ![t] = NoPtr]
  /\ addr' = [addr EXCEPT ![t] = None]
  /\ hostlen' = [hostlen EXCEPT ![t] = 0]
  /\ servlen' = [servlen EXCEPT ![t] = 0]
  /\ hostBuf' = [hostBuf EXCEPT ![t] = [i \in BufCells |-> Untouched]]
  /\ servBuf' = [servBuf EXCEPT ![t] = [i \in BufCells |-> Untouched]]
  /\ resBefore' = [resBefore EXCEPT ![t] = NoPtr]
  /\ osCalls' = [osCalls EXCEPT ![t] = 0]
  /\ osFirst' = [osFirst EXCEPT ![t] = None]
  /\ osChain' = [osChain EXCEPT ![t] = NoPtr]
  /\ osLen' = [osLen EXCEPT ![t] = 0]
  /\ hostName' = [hostName EXCEPT ![t] = 0]
  /\ servName' = [servName EXCEPT ![t] = 0]
  /\ UNCHANGED heapVars

\* The caller releases a chain it received (freeaddrinfo), once.
Release(t, c) ==
  /\ pc[t] = "idle"
  /\ c \in held[t]
  /\ chains' = [chains EXCEPT ![c] = "freed"]
  /\ relCount' = [relCount EXCEPT ![c] = @ + 1]
  /\ held' = [held EXCEPT ![t] = @ \ {c}]
  /\ UNCHANGED <<callVars, err, gaiVars, gniVars, osCalls, osFirst>>

Next ==
  \E t \in Threads :
    \/ CallGetaddrinfo(t)
    \/ HsGetaddrinfoOS(t)
    \/ HsGetaddrinfoReturn(t)
    \/ CallGetnameinfo(t)
    \/ HsGetnameinfoOS(t)
    \/ HsGetnameinfoReturn(t)
    \/ Finish(t)
    \/ \E c \in ChainIds : Release(t, c)

Spec == Init /\ [][Next]_vars

\* ------------------------------------------------------------ properties
Returned(t) == pc[t] = "returned"

InGai(t) == op[t] = "getaddrinfo"

InGni(t) == op[t] = "getnameinfo"

\* The OS resolver has reported for t's current call
Reported(t) == pc[t] \in {"gai_os_done", "gni_os_done", "returned"}

\* buf holds NUL-terminated text within its first cap bytes
Terminated(buf, cap) ==
  \E k \in 1..cap : buf[k] = Nul /\ \A i \in 1..(k - 1) : buf[i] = Char

\* No byte at or beyond index cap (counted from 0) of buf was written
WithinCap(buf, cap) == \A i \in BufCells : i > cap => buf[i] = Untouched

\* C1: the status either adapter returns is a status of the enumeration for
\* every native code, a code without a dedicated mapping yields the generic
\* system failure, and the two adapters give one code the same status.
C1_StatusTotalWithFallback ==
  /\ \A t \in Threads :
       Returned(t) =>
         /\ ret[t] \in Status
         /\ (osFirst[t] \notin Mapped => ret[t] = SystemFailure)
  /\ \A t, u \in Threads :
       (Returned(t) /\ Returned(u) /\ InGai(t) /\ InGni(u) /\ osFirst[t] = osFirst[u])
         => ret[t] = ret[u]

C1_Witness ==
  \E t, u \in Threads :
    /\ Returned(t) /\ InGai(t) /\ Returned(u) /\ InGni(u)
    /\ osFirst[t] = "EAI_UNMAPPED" /\ osFirst[u] = "EAI_UNMAPPED"
    /\ ret[t] = SystemFailure /\ ret[u] = SystemFailure

\* C2 as stated: a resolve_forward call that ends in failure returns a
\* non-success status and leaves the res output empty, whatever it held.
C2_FailureLeavesResEmpty ==
  \A t \in Threads :
    (Returned(t) /\ InGai(t) /\ osFirst[t] # OK)
      => (ret[t] \in Failures /\ resOut[t] = NullPtr)

\* C2 amended: a resolve_forward call that ends in failure returns a
\* non-success status (name-not-found for a name that does not exist) and
\* stores nothing through res: the res output is as the OS resolver left it,
\* empty or what it held before the call, and no chain was allocated.
C2_FailureLeavesResAsResolverLeftIt ==
  \A t \in Threads :
    (Returned(t) /\ InGai(t) /\ osFirst[t] # OK)
      => /\ ret[t] \in Failures
         /\ (osFirst[t] = "EAI_NONAME" => ret[t] = "name-not-found")
         /\ resOut[t] \in {NullPtr, resBefore[t]}
         /\ resOut[t] \notin ChainPtrs
         /\ osChain[t] = NoPtr

C2_Witness ==
  \E t \in Threads :
    /\ Returned(t) /\ InGai(t) /\ osFirst[t] = "EAI_NONAME"
    /\ ret[t] = "name-not-found"
    /\ resBefore[t] = Garbage /\ resOut[t] = Garbage

\* C3: when the OS resolver reports success the call returns success and a
\* non-empty chain through res; success is returned only in that case.
C3_SuccessIffResolverSucceeded ==
  \A t \in Threads :
    (Returned(t) /\ InGai(t)) =>
      /\ (osFirst[t] = OK =>
            /\ ret[t] = Success
            /\ resOut[t] \in ChainPtrs
            /\ resOut[t] = osChain[t]
            /\ chains[resOut[t][2]] = "alloc"
            /\ osLen[t] >= 1)
      /\ (ret[t] = Success => osFirst[t] = OK)

C3_Witness ==
  \E t \in Threads :
    /\ Returned(t) /\ InGai(t) /\ osFirst[t] = OK /\ ret[t] = Success
    /\ (node[t] # NULL \/ service[t] # NULL)
    /\ resOut[t] \in ChainPtrs /\ osLen[t] = MaxAddrs

\* C4: when a buffer of hs_getnameinfo is smaller than the resolved name the
\* call returns buffer-too-small, and no byte at or beyond the given capacity
\* of either buffer is written, whatever the outcome.
C4_NoOverflow ==
  \A t \in Threads :
    (InGni(t) /\ Reported(t)) =>
      /\ WithinCap(hostBuf[t], hostlen[t])
      /\ WithinCap(servBuf[t], servlen[t])
      /\ (Returned(t) /\ hostName[t] > 0
            /\ (hostlen[t] < hostName[t] + 1 \/ servlen[t] < servName[t] + 1)
          => ret[t] = "buffer-too-small")

C4_Witness ==
  \E t \in Threads :
    /\ Returned(t) /\ InGni(t)
    /\ hostlen[t] = MaxCap /\ hostName[t] = MaxName
    /\ hostBuf[t][MaxCap] = Char
    /\ hostBuf[t][MaxCap + 1] = Untouched
    /\ ret[t] = "buffer-too-small"

\* C5: every call invokes the OS resolver exactly once, also with both names
\* absent, and returns the translation of that one outcome: no retry.
C5_OneResolverCallNoRetry ==
  \A t \in Threads :
    /\ (pc[t] \in {"gai_entry", "gni_entry"} => osCalls[t] = 0)
    /\ (Reported(t) => osCalls[t] = 1)
    /\ (Returned(t) => ret[t] = Translate(osFirst[t]))

C5_Witness ==
  \E t, u \in Threads :
    /\ Returned(t) /\ InGai(t) /\ osFirst[t] = "EAI_AGAIN"
    /\ ret[t] = "temporary-failure" /\ osCalls[t] = 1
    /\ Returned(u) /\ InGai(u) /\ node[u] = NULL /\ service[u] = NULL
    /\ osCalls[u] = 1 /\ ret[u] = "name-not-found"

\* C6: every allocated chain is held by a caller that received success or is
\* still inside the call that allocated it; a call that ends in failure
\* leaves no chain behind; no chain is released more than once.
C6_NoLeakNoDoubleRelease ==
  /\ \A c \in ChainIds :
       /\ chains[c] = "alloc" =>
            \/ \E t \in Threads : c \in held[t]
            \/ \E t \in Threads : pc[t] = "gai_os_done" /\ osChain[t] = Ptr(c)
       /\ (\E t \in Threads : c \in held[t]) => chains[c] = "alloc"
       /\ relCount[c] <= 1
       /\ (chains[c] = "freed" <=> relCount[c] = 1)
  /\ \A t \in Threads :
       (Returned(t) /\ InGai(t) /\ ret[t] # Success) => osChain[t] = NoPtr

C6_Witness ==
  \E c, d \in ChainIds, t \in Threads :
    /\ chains[c] = "freed" /\ relCount[c] = 1
    /\ chains[d] = "alloc" /\ d \in held[t]
    /\ \E u \in Threads : Returned(u) /\ InGai(u) /\ ret[u] \in Failures

\* C7: a resolve_forward call that runs while another thread is inside a
\* call returns the status and the chain the OS resolver produced for that
\* very call, and its chain reaches no other call.
C7_NoCrossContamination ==
  \A t \in Threads :
    (Returned(t) /\ InGai(t)) =>
      /\ ret[t] = Translate(osFirst[t])
      /\ (osChain[t] # NoPtr => resOut[t] = osChain[t])
      /\ \A u \in Threads \ {t} :
           osChain[t] # NoPtr =>
             /\ resOut[u] # osChain[t]
             /\ osChain[u] # osChain[t]
             /\ osChain[t][2] \notin held[u]

C7_Witness ==
  \E t, u \in Threads :
    /\ t # u
    /\ Returned(t) /\ InGai(t) /\ ret[t] = Success
    /\ pc[u] = "gai_os_done" /\ osFirst[u] = "EAI_AGAIN"
    /\ node[t] # node[u]

\* C8: two calls for which the OS resolver reports the same native code
\* return the same status, whichever adapter made them and whatever the
\* heap and the other thread's state are at the time.
C8_StatusDependsOnCodeAlone ==
  \A t, u \in Threads :
    (Returned(t) /\ Returned(u) /\ osFirst[t] = osFirst[u]) => ret[t] = ret[u]

C8_Witness ==
  \E t, u \in Threads :
    /\ t # u /\ Returned(t) /\ Returned(u)
    /\ InGai(t) /\ InGai(u)
    /\ osFirst[t] = "EAI_NONAME" /\ osFirst[u] = "EAI_NONAME"
    /\ FreeChains = {}
    /\ ret[t] = ret[u]

\* Everything a call of hs_getnameinfo has no business changing: the heap,
\* the result slots and names of forward calls, its own sockaddr and
\* capacities, and every other thread's buffers.
GniFrame(t) ==
  /\ UNCHANGED <<chains, held, relCount, resOut, node, service, resBefore,
                 osChain, osLen, addr, hostlen, servlen, op>>
  /\ \A u \in Threads \ {t} :
       /\ hostBuf'[u] = hostBuf[u]
       /\ servBuf'[u] = servBuf[u]
       /\ ret'[u] = ret[u]
       /\ pc'[u] = pc[u]

\* C9: a step of hs_getnameinfo allocates nothing and changes only the two
\* buffers it was given (and its own locals); when it returns success each
\* buffer holds NUL-terminated text within its capacity.
C9_ReverseTouchesOnlyItsBuffers ==
  [][\A t \in Threads :
       (HsGetnameinfoOS(t) \/ HsGetnameinfoReturn(t)) =>
         /\ GniFrame(t)
         /\ (ret'[t] = Success =>
               /\ Terminated(hostBuf'[t], hostlen'[t])
               /\ Terminated(servBuf'[t], servlen'[t]))]_vars

C9_Witness ==
  \E t, u \in Threads :
    /\ Returned(t) /\ InGni(t) /\ ret[t] = Success
    /\ addr[t] \in Addrs
    /\ Terminated(hostBuf[t], hostlen[t]) /\ Terminated(servBuf[t], servlen[t])
    /\ held[u] # {}

\* C10: once the OS resolver has reported, whatever the code, the call can
\* return, and a returned call carries success or a normalized failure; a
\* call consists of one resolver step and its return.
C10_TwoTerminalOutcomes ==
  \A t \in Threads :
    /\ pc[t] \in {"idle", "gai_entry", "gai_os_done", "gni_entry", "gni_os_done",
                  "returned"}
    /\ (pc[t] = "gai_os_done" => ENABLED HsGetaddrinfoReturn(t))
    /\ (pc[t] = "gni_os_done" => ENABLED HsGetnameinfoReturn(t))
    /\ (Returned(t) =>
          /\ osCalls[t] = 1
          /\ \/ ret[t] = Success /\ osFirst[t] = OK
             \/ ret[t] \in Failures /\ osFirst[t] # OK)

C10_Witness ==
  \E t, u \in Threads :
    /\ Returned(t) /\ osFirst[t] = "EAI_UNMAPPED" /\ ret[t] \in Failures
    /\ Returned(u) /\ osFirst[u] = OK /\ ret[u] = Success

====
